---------------------------- MODULE Spec2Model ----------------------------
(***************************************************************************)
(* Model of VQ2D/vq2d/metrics/tracking_metrics.py: the TrackingMetrics    *)
(* facade and the aggregator compute_tracking_metrics.                     *)
(*                                                                         *)
(* Reals are modelled exactly.  Scores, whole-track IoUs, per-frame IoUs  *)
(* and thresholds are integers in hundredths (0.5 is 50, 1.0 is 100).     *)
(* A robustness value is a fraction [num, den] with den > 0; the float    *)
(* 0.0 of np.zeros is [num |-> 0, den |-> 1].                              *)
(***************************************************************************)
EXTENDS Integers, Sequences, FiniteSets

VARIABLES
    ground_truth,               \* self.ground_truth: rows [video_id, response_track]
    prediction,                 \* self.prediction: rows [video_id, response_track, score]
    mode,                       \* self.mode
    ignore_iou_averaging,       \* self.ignore_iou_averaging
    iou_thresholds,             \* TrackingMetrics.iou_thresholds
    ious_to_report,             \* TrackingMetrics.ious_to_report
    pc,                         \* position inside get_metrics -> evaluate -> compute_tracking_metrics
    sort_idx,                   \* local sort_idx (line 134)
    sorted_prediction,          \* local prediction after line 135
    ground_truth_gbvn,          \* local ground_truth_gbvn (line 148); "unset" before the groupby
    st_iou,                     \* local st_iou[tidx][idx]
    track_acc_count,            \* local track_acc_count[tidx][idx]
    track_total_count,          \* local track_total_count[tidx][idx]
    max_idx,                    \* the max_idx chosen at line 194, per ground-truth row and tidx
    final_track_acc_count,      \* local final_track_acc_count[tidx]
    final_track_total_count,    \* local final_track_total_count[tidx]
    tracking_metrics,           \* self.tracking_metrics["% recovery"], or "unset"
    average_tracking_metrics,   \* self.average_tracking_metrics["% recovery"], or "unset"
    metrics                     \* the mapping get_metrics returns, or "unset"

vars == <<ground_truth, prediction, mode, ignore_iou_averaging, iou_thresholds,
          ious_to_report, pc, sort_idx, sorted_prediction, ground_truth_gbvn,
          st_iou, track_acc_count, track_total_count, max_idx,
          final_track_acc_count, final_track_total_count, tracking_metrics,
          average_tracking_metrics, metrics>>

config == <<ground_truth, prediction, mode, ignore_iou_averaging, iou_thresholds,
            ious_to_report>>

-----------------------------------------------------------------------------
(* Bounds of the model. *)

MaxVideos == 2
MaxPreds == 2

(* Sample values, in hundredths. *)
ScoreVals == {30, 90}
TrackIoUVals == {40, 70}
FrameIoUVals == {50, 100}
FrameIds == {1}
Modes == {"take_max_stiou", "take_max_score"}
DefaultThresholds == <<50, 75, 95>>
DefaultReport == {50}

-----------------------------------------------------------------------------
(* Fractions. *)

Frac(n, d) == [num |-> n, den |-> d]
Zero == Frac(0, 1)
FracEq(a, b) == a.num * b.den = b.num * a.den
FracLe(a, b) == a.num * b.den <= b.num * a.den
FracAdd(a, b) == Frac(a.num * b.den + b.num * a.den, a.den * b.den)

RECURSIVE SumSeq(_)
SumSeq(s) == IF s = <<>> THEN 0 ELSE Head(s) + SumSeq(Tail(s))

RECURSIVE FracSum(_)
FracSum(s) == IF s = <<>> THEN Zero ELSE FracAdd(Head(s), FracSum(Tail(s)))

-----------------------------------------------------------------------------
(* The collaborators (vq2d.structures.ResponseTrack, vq2d.metrics.utils). *)
(* A ground-truth track exposes its length.  A predicted track carries    *)
(* its score and, against the ground truth of its own video, what         *)
(* spatio_temporal_iou (stiou) and spatio_temporal_iou_matches (matches:  *)
(* a mapping frame -> IoU) return for it.                                  *)

GtTracks == [length : 0..Cardinality(FrameIds)]

Matches == UNION {[F -> FrameIoUVals] : F \in SUBSET FrameIds}

(* A predicted track and its video's ground truth overlap as a whole      *)
(* exactly when some frame is matched.                                     *)
PredTracks ==
    {t \in [score : ScoreVals, stiou : TrackIoUVals \cup {0}, matches : Matches] :
        (t.stiou = 0) <=> (t.matches = <<>>)}

(* Predictions for a video without ground truth: the collaborators are    *)
(* never asked about them, only their score is read.                       *)
FpTracks == [score : ScoreVals, stiou : {70}, matches : {[f \in FrameIds |-> 100]}]

spatio_temporal_iou(pred, gts) == <<pred.stiou>>

spatio_temporal_iou_matches(pred, gts) == <<pred.matches>>

-----------------------------------------------------------------------------
(* Data frames are sequences of rows; row i of the model is the row with  *)
(* index i - 1 of the code.                                                *)

RECURSIVE Flatten(_, _)
Flatten(lists, i) ==
    IF i > Len(lists) THEN <<>>
    ELSE [k \in 1..Len(lists[i]) |->
            [video_id |-> i - 1,
             response_track |-> lists[i][k],
             score |-> lists[i][k].score]]
         \o Flatten(lists, i + 1)

_import_ground_truth(gts) ==
    [i \in 1..Len(gts) |-> [video_id |-> i - 1, response_track |-> gts[i]]]

_import_prediction(lists) == Flatten(lists, 1)

(* df.groupby("video-id"): each video id of the frame with its row indices, ascending. *)
RowsOf(df, vid) == {i \in DOMAIN df : df[i].video_id = vid}

RECURSIVE SetToSortedSeq(_)
SetToSortedSeq(S) ==
    IF S = {} THEN <<>>
    ELSE LET m == CHOOSE x \in S : \A y \in S : x <= y
         IN  <<m>> \o SetToSortedSeq(S \ {m})

groupby(df) ==
    [vid \in {df[i].video_id : i \in DOMAIN df} |-> SetToSortedSeq(RowsOf(df, vid))]

(* get_group succeeds on the keys of the grouping and raises on any other. *)
HasGroup(gb, vid) == vid \in DOMAIN gb

get_group_index_All(df, vid) == [i \in 1..Len(df) |-> i]

(* Lines 186-187: prediction_gbvn.get_group(vid).index.tolist(). *)
get_group_index(df, vid) == groupby(df)[vid]

argmax_Last(s) == CHOOSE i \in DOMAIN s :
                /\ \A j \in DOMAIN s : s[j] <= s[i]
                /\ \A j \in DOMAIN s : j > i => s[j] < s[i]

(* numpy argmax: the first position holding the maximum. *)
argmax(s) == CHOOSE i \in DOMAIN s :
                /\ \A j \in DOMAIN s : s[j] <= s[i]
                /\ \A j \in DOMAIN s : j < i => s[j] < s[i]

(* values.argsort(): numpy's default sort kind is quicksort, which is not *)
(* stable: any permutation that puts the values in ascending order.       *)
IndexPermutations(n) ==
    {p \in [1..n -> 1..n] : \A i, j \in 1..n : i # j => p[i] # p[j]}

argsort(values) ==
    {p \in IndexPermutations(Len(values)) :
        \A i \in 1..(Len(values) - 1) : values[p[i]] <= values[p[i + 1]]}

Reverse_Missing(s) == s

(* Line 134: [::-1]. *)
Reverse(s) == [i \in 1..Len(s) |-> s[Len(s) + 1 - i]]

AccurateFrames_Inverted(stiou_matches, iou_thr) ==
    Cardinality({f \in DOMAIN stiou_matches : stiou_matches[f] <= iou_thr})

AccurateFrames_Strict(stiou_matches, iou_thr) ==
    Cardinality({f \in DOMAIN stiou_matches : stiou_matches[f] > iou_thr})

(* Lines 170-172: the number of matched frames whose IoU reaches the threshold. *)
AccurateFrames(stiou_matches, iou_thr) ==
    Cardinality({f \in DOMAIN stiou_matches : stiou_matches[f] >= iou_thr})

-----------------------------------------------------------------------------
(* Inputs of the constructor: a list of ground-truth tracks and a list of *)
(* lists of predicted tracks, list i for video i.  The prediction list    *)
(* may be one longer than the ground truth: the predictions of its last   *)
(* list are then for a video without ground truth.                         *)

SeqsUpTo(S, n) == UNION {[1..k -> S] : k \in 0..n}

GroundTruthInputs == SeqsUpTo(GtTracks, MaxVideos)

(* A prediction with the list it is put in: lists 1..g are those of the   *)
(* g ground-truth videos, list g + 1 holds the false positives.            *)
Slots(g) == ((1..g) \X PredTracks) \cup ({g + 1} \X FpTracks)

InListOrder(slots) == \A i \in 1..(Len(slots) - 1) : slots[i][1] <= slots[i + 1][1]

RECURSIVE TracksOfList(_, _)
TracksOfList(slots, i) ==
    IF slots = <<>> THEN <<>>
    ELSE IF Head(slots)[1] = i
         THEN <<Head(slots)[2]>> \o TracksOfList(Tail(slots), i)
         ELSE TracksOfList(Tail(slots), i)

ListsOf(slots, g) == [i \in 1..(g + 1) |-> TracksOfList(slots, i)]

(* The scenario of the documentation: one video of 10 frames, P1 with score *)
(* 0.9 and 5 frames at IoU 0.6, P2 with score 0.3, 10 frames at IoU 0.8 and *)
(* the higher whole-track IoU.                                              *)
ScenarioGt == <<[length |-> 10]>>
ScenarioP1 == [score |-> 90, stiou |-> 30, matches |-> [f \in 1..5 |-> 60]]
ScenarioP2 == [score |-> 30, stiou |-> 80, matches |-> [f \in 1..10 |-> 80]]
ScenarioPreds == <<<<ScenarioP1, ScenarioP2>>>>

Unset == "unset"

(* __init__ (lines 21-37) with the given arguments and class attributes. *)
Construct(gts, lists, m, ignore, grid, report) ==
    /\ ground_truth = _import_ground_truth(gts)
    /\ prediction = _import_prediction(lists)
    /\ mode = m
    /\ ignore_iou_averaging = ignore
    /\ iou_thresholds = grid
    /\ ious_to_report = report
    /\ pc = "constructed"
    /\ sort_idx = Unset
    /\ sorted_prediction = Unset
    /\ ground_truth_gbvn = Unset
    /\ st_iou = Unset
    /\ track_acc_count = Unset
    /\ track_total_count = Unset
    /\ max_idx = Unset
    /\ final_track_acc_count = Unset
    /\ final_track_total_count = Unset
    /\ tracking_metrics = Unset
    /\ average_tracking_metrics = Unset
    /\ metrics = Unset

InitWith(ms, ignores, grids, reports, tracks) ==
    \/ \E gts \in GroundTruthInputs, n \in 0..MaxPreds :
         \E slots \in [1..n -> Slots(Len(gts))] :
            /\ InListOrder(slots)
            /\ \A i \in 1..n : slots[i][2] \in tracks
            /\ \E m \in ms, ignore \in ignores, grid \in grids, report \in reports :
                  Construct(gts, ListsOf(slots, Len(gts)), m, ignore, grid, report)
    \/ \E m \in ms, ignore \in ignores, grid \in grids, report \in reports :
            Construct(ScenarioGt, ScenarioPreds, m, ignore, grid, report)

Init == InitWith(Modes, {FALSE}, {DefaultThresholds}, {DefaultReport}, PredTracks \cup FpTracks)

-----------------------------------------------------------------------------
(* compute_tracking_metrics(ground_truth, prediction, iou_thresholds,     *)
(* mode), as called by evaluate (line 78) from get_metrics (line 86).      *)
(* gt and pred are the two frames, rows the sorted frame of line 135,     *)
(* grid the thresholds and m the mode.                                     *)

Mean(v) == LET total == FracSum(v) IN Frac(total.num, total.den * Len(v))

(* Line 129. *)
Zeros(grid) == [tidx \in DOMAIN grid |-> Zero]

(* Lines 159-166: the ground-truth tracks of the video of one prediction row. *)
GtValues(gt, gb, vid) == [k \in DOMAIN gb[vid] |-> gt[gb[vid][k]].response_track]

(* Line 174. *)
StIouSlot(gt, gb, row) ==
    IF HasGroup(gb, row.video_id)
    THEN spatio_temporal_iou(row.response_track, GtValues(gt, gb, row.video_id))[1]
    ELSE 0

(* Lines 170-172 and 176: the count one (threshold, prediction) slot receives. *)
AccCountSlot(gt, gb, row, iou_thr) ==
    IF HasGroup(gb, row.video_id)
    THEN AccurateFrames(
            spatio_temporal_iou_matches(row.response_track,
                                        GtValues(gt, gb, row.video_id))[1],
            iou_thr)
    ELSE 0

(* Line 177. *)
TotalCountSlot(gt, gb, row) ==
    IF HasGroup(gb, row.video_id)
    THEN GtValues(gt, gb, row.video_id)[1].length
    ELSE 0

(* Lines 190-194: the index of the winning prediction among pred_idxs. *)
PickMaxIdx(m, rows, stiou_row, pred_idxs) ==
    LET pos == IF m = "take_max_stiou"
               THEN argmax([k \in DOMAIN pred_idxs |-> stiou_row[pred_idxs[k]]])
               ELSE argmax([k \in DOMAIN pred_idxs |-> rows[pred_idxs[k]].score])
    IN  pred_idxs[pos]

(* Lines 195-197: what is appended for one ground-truth row is the slot of the winner. *)
WinnerSlot(counts_row, pred_idxs, winner) == counts_row[winner]

Robustness_Swapped(acc_counts, total_counts) ==
    IF SumSeq(total_counts) > 0
    THEN Frac(100 * SumSeq(total_counts), SumSeq(acc_counts))
    ELSE Zero

Robustness_Fraction(acc_counts, total_counts) ==
    IF SumSeq(total_counts) > 0
    THEN Frac(SumSeq(acc_counts), SumSeq(total_counts))
    ELSE Zero

(* Lines 203-204. *)
Robustness(acc_counts, total_counts) ==
    IF SumSeq(total_counts) > 0
    THEN Frac(100 * SumSeq(acc_counts), SumSeq(total_counts))
    ELSE Zero

(* Line 135: the rows of the frame in the order of sort_idx. *)
SortedRows(pred, sidx) == [i \in DOMAIN pred |-> pred[sidx[i]]]

(* Lines 142-177: the three arrays of the scoring pass, [tidx][idx]. *)
StIouArray(gt, gb, rows, grid) ==
    [tidx \in DOMAIN grid |-> [idx \in DOMAIN rows |-> StIouSlot(gt, gb, rows[idx])]]

AccCountArray(gt, gb, rows, grid) ==
    [tidx \in DOMAIN grid |-> [idx \in DOMAIN rows |->
        AccCountSlot(gt, gb, rows[idx], grid[tidx])]]

TotalCountArray(gt, gb, rows, grid) ==
    [tidx \in DOMAIN grid |-> [idx \in DOMAIN rows |-> TotalCountSlot(gt, gb, rows[idx])]]

(* Lines 185-194: max_idx for every ground-truth row and threshold. *)
Winners(gt, rows, stiou, grid, m) ==
    [g \in DOMAIN gt |-> [tidx \in DOMAIN grid |->
        PickMaxIdx(m, rows, stiou[tidx], get_group_index(rows, gt[g].video_id))]]

(* Lines 195-197: the lists final_track_acc_count and final_track_total_count. *)
FinalCounts(gt, rows, counts, win, grid) ==
    [tidx \in DOMAIN grid |-> [g \in DOMAIN gt |->
        WinnerSlot(counts[tidx], get_group_index(rows, gt[g].video_id), win[g][tidx])]]

(* Lines 199-204. *)
RobustnessVector(facc, ftot, grid) ==
    [tidx \in DOMAIN grid |-> Robustness(facc[tidx], ftot[tidx])]

(* Lines 137-206 on the sorted frame rows, when it is not empty and holds a *)
(* prediction for every ground-truth row: the vector the call returns.      *)
AggregateSorted(gt, rows, grid, m) ==
    LET gb == groupby(gt)
        stiou == StIouArray(gt, gb, rows, grid)
        acc == AccCountArray(gt, gb, rows, grid)
        tot == TotalCountArray(gt, gb, rows, grid)
        win == Winners(gt, rows, stiou, grid, m)
    IN  RobustnessVector(FinalCounts(gt, rows, acc, win, grid),
                         FinalCounts(gt, rows, tot, win, grid), grid)

Scores(pred) == [i \in DOMAIN pred |-> pred[i].score]

(* Line 186: get_group finds rows for the video id.  Sorting moves rows and *)
(* keeps their video ids, so the groups of the sorted frame have the keys  *)
(* of the frame as constructed.                                            *)
HasPredictions(pred, vid) == RowsOf(pred, vid) # {}

AllHavePredictions(gt, pred) == \A g \in DOMAIN gt : HasPredictions(pred, gt[g].video_id)

ReturnEmpty_NoEarlyReturn ==
    /\ pc = "constructed"
    /\ prediction = <<>>
    /\ pc' = IF ground_truth = <<>> THEN "evaluated" ELSE "KeyError"
    /\ tracking_metrics' = IF ground_truth = <<>> THEN Zeros(iou_thresholds) ELSE Unset
    /\ average_tracking_metrics' =
            IF ground_truth = <<>> THEN Mean(tracking_metrics') ELSE Unset
    /\ UNCHANGED <<config, sort_idx, sorted_prediction, ground_truth_gbvn, st_iou,
                   track_acc_count, track_total_count, max_idx,
                   final_track_acc_count, final_track_total_count, metrics>>

(* Lines 129-131, then lines 78-83: the frame of predictions is empty. *)
ReturnEmpty ==
    /\ pc = "constructed"
    /\ prediction = <<>>
    /\ tracking_metrics' = Zeros(iou_thresholds)
    /\ average_tracking_metrics' = Mean(tracking_metrics')
    /\ pc' = "evaluated"
    /\ UNCHANGED <<config, sort_idx, sorted_prediction, ground_truth_gbvn, st_iou,
                   track_acc_count, track_total_count, max_idx,
                   final_track_acc_count, final_track_total_count, metrics>>

SelectionLoop_SkipMissing(gt, pred) ==
    [raises |-> FALSE,
     rows |-> SelectSeq(gt, LAMBDA row : HasPredictions(pred, row.video_id))]

(* Lines 185-186: the loop goes through every ground-truth row, and       *)
(* get_group raises for a row whose video has no prediction.               *)
SelectionLoop(gt, pred) ==
    [raises |-> ~AllHavePredictions(gt, pred), rows |-> gt]

(* Line 186 raises: the video of some ground-truth row has no prediction. *)
(* The exception leaves compute_tracking_metrics, evaluate and            *)
(* get_metrics; the locals of the call are dropped and nothing is stored. *)
RaiseKeyError ==
    /\ pc = "constructed"
    /\ prediction # <<>>
    /\ SelectionLoop(ground_truth, prediction).raises
    /\ pc' = "KeyError"
    /\ UNCHANGED <<config, sort_idx, sorted_prediction, ground_truth_gbvn, st_iou,
                   track_acc_count, track_total_count, max_idx,
                   final_track_acc_count, final_track_total_count,
                   tracking_metrics, average_tracking_metrics, metrics>>

(* Lines 133-206, then lines 78-83: the call returns the robustness vector. *)
Evaluate ==
    /\ pc = "constructed"
    /\ prediction # <<>>
    /\ ~SelectionLoop(ground_truth, prediction).raises
    /\ \E ascending \in argsort(Scores(prediction)) : sort_idx' = Reverse(ascending)
    /\ sorted_prediction' = SortedRows(prediction, sort_idx')
    /\ ground_truth_gbvn' = groupby(ground_truth)
    /\ st_iou' = StIouArray(ground_truth, ground_truth_gbvn', sorted_prediction',
                            iou_thresholds)
    /\ track_acc_count' = AccCountArray(ground_truth, ground_truth_gbvn',
                                        sorted_prediction', iou_thresholds)
    /\ track_total_count' = TotalCountArray(ground_truth, ground_truth_gbvn',
                                            sorted_prediction', iou_thresholds)
    /\ LET gt_rows == SelectionLoop(ground_truth, prediction).rows
       IN  /\ max_idx' = Winners(gt_rows, sorted_prediction', st_iou', iou_thresholds, mode)
           /\ final_track_acc_count' = FinalCounts(gt_rows, sorted_prediction',
                                            track_acc_count', max_idx', iou_thresholds)
           /\ final_track_total_count' = FinalCounts(gt_rows, sorted_prediction',
                                            track_total_count', max_idx', iou_thresholds)
    /\ tracking_metrics' = RobustnessVector(final_track_acc_count',
                                            final_track_total_count', iou_thresholds)
    /\ average_tracking_metrics' = Mean(tracking_metrics')
    /\ pc' = "evaluated"
    /\ UNCHANGED <<config, metrics>>

-----------------------------------------------------------------------------
(* get_metrics after evaluate() has returned.                              *)
(* The mapping is an OrderedDict: a sequence of entries, one per key.  A  *)
(* key is the label PRINT_FORMAT renders from the metric name and the     *)
(* IoU suffix; rendered with two decimals, a value in hundredths is shown *)
(* by its number of hundredths.                                            *)

Suffix == IF mode = "take_max_stiou" THEN "(max iou)" ELSE "(max scr)"

MetricName == <<"Tracking", "% recovery", Suffix>>

Label(iou_suffix) == [metric_name |-> MetricName, iou |-> iou_suffix]

DictSet(d, k, v) ==
    IF \E i \in DOMAIN d : d[i].key = k
    THEN [i \in DOMAIN d |-> IF d[i].key = k THEN [key |-> k, value |-> v] ELSE d[i]]
    ELSE Append(d, [key |-> k, value |-> v])

RECURSIVE ReportThresholds_All(_, _)
ReportThresholds_All(d, tidx) ==
    IF tidx > Len(iou_thresholds) THEN d
    ELSE ReportThresholds_All(
            DictSet(d, Label(<<iou_thresholds[tidx]>>), tracking_metrics[tidx]),
            tidx + 1)

(* Lines 94-99, from threshold index tidx on. *)
RECURSIVE ReportThresholds(_, _)
ReportThresholds(d, tidx) ==
    IF tidx > Len(iou_thresholds) THEN d
    ELSE IF iou_thresholds[tidx] \notin ious_to_report
         THEN ReportThresholds(d, tidx + 1)
         ELSE ReportThresholds(
                DictSet(d, Label(<<iou_thresholds[tidx]>>), tracking_metrics[tidx]),
                tidx + 1)

(* Lines 87-100. *)
GetMetrics ==
    /\ pc = "evaluated"
    /\ LET avg_suffix == <<iou_thresholds[1], iou_thresholds[Len(iou_thresholds)]>>
           withAvg == IF ~ignore_iou_averaging
                      THEN DictSet(<<>>, Label(avg_suffix), average_tracking_metrics)
                      ELSE <<>>
       IN  metrics' = ReportThresholds(withAvg, 1)
    /\ pc' = "returned"
    /\ UNCHANGED <<config, sort_idx, sorted_prediction, ground_truth_gbvn, st_iou,
                   track_acc_count, track_total_count, max_idx,
                   final_track_acc_count, final_track_total_count, tracking_metrics,
                   average_tracking_metrics>>

Next ==
    \/ ReturnEmpty
    \/ RaiseKeyError
    \/ Evaluate
    \/ GetMetrics

Spec == Init /\ [][Next]_vars

(* The grid is not required to be sorted: the same inputs with the        *)
(* thresholds in another order.                                            *)
UnsortedThresholds == <<100, 50, 75>>

InitGrid ==
    InitWith(Modes, {FALSE}, {UnsortedThresholds}, {DefaultReport}, PredTracks \cup FpTracks)

SpecGrid == InitGrid /\ [][Next]_vars

(* The facade with averaging kept or suppressed and several subsets to    *)
(* report, over the default reporting grid.                                *)
ReportSets == {DefaultReport, {}, {50, 95}, {60, 75}}

FacadeTracks == {t \in PredTracks : t.score = 90}

InitFacade == InitWith(Modes, BOOLEAN, {DefaultThresholds}, ReportSets, FacadeTracks)

SpecFacade == InitFacade /\ [][Next]_vars

-----------------------------------------------------------------------------
(* Notions the properties are stated with.  They are written from the     *)
(* inputs of the call and do not use the operators of the aggregator.     *)

GtRows == DOMAIN ground_truth

Returned == pc \in {"evaluated", "returned"}

VideoOf(g) == ground_truth[g].video_id

LengthOf(g) == ground_truth[g].response_track.length

(* The predictions submitted for the video of ground-truth row g, as      *)
(* indices of the frame of predictions in input order.                     *)
Submitted(g) == {i \in DOMAIN prediction : prediction[i].video_id = VideoOf(g)}

NoneMissing == \A g \in GtRows : Submitted(g) # {}

(* The frames of a predicted track matched with an IoU of at least t. *)
FramesAtLeast(track, t) == {f \in DOMAIN track.matches : track.matches[f] >= t}

MaxScoreOf(g, i) ==
    /\ i \in Submitted(g)
    /\ \A j \in Submitted(g) : prediction[j].score <= prediction[i].score

MaxTrackIouOf(g, i) ==
    /\ i \in Submitted(g)
    /\ \A j \in Submitted(g) :
            prediction[j].response_track.stiou <= prediction[i].response_track.stiou

IsWinnerOf(g, i) ==
    IF mode = "take_max_score" THEN MaxScoreOf(g, i) ELSE MaxTrackIouOf(g, i)

TotalLength == SumSeq([g \in GtRows |-> LengthOf(g)])

(* 100 x (accurate frames of the chosen predictions) / (ground-truth frames), or 0. *)
Recovery(chosen, t) ==
    IF TotalLength = 0 THEN Zero
    ELSE Frac(100 * SumSeq([g \in GtRows |->
                    Cardinality(FramesAtLeast(prediction[chosen[g]].response_track, t))]),
              TotalLength)

IsScenario ==
    /\ ground_truth = _import_ground_truth(ScenarioGt)
    /\ prediction = _import_prediction(ScenarioPreds)

-----------------------------------------------------------------------------
(* C1.  When the call returns for a non-empty prediction set in which     *)
(* every ground-truth video has a prediction, there is one winner per     *)
(* video, a maximum-score prediction of the video in mode take_max_score  *)
(* and a maximum-track-IoU prediction of it in mode take_max_stiou, such  *)
(* that at every threshold the robustness is 100 x (accurate frames of    *)
(* the winners) / (summed ground-truth lengths), or 0 when that sum is 0. *)
(* In the documented scenario threshold 0.5 gives 50 by score and 100 by  *)
(* track IoU.                                                              *)
C1_RobustnessFormula ==
    (Returned /\ prediction # <<>> /\ NoneMissing) =>
        /\ \E chosen \in [GtRows -> DOMAIN prediction] :
              /\ \A g \in GtRows : IsWinnerOf(g, chosen[g])
              /\ \A tidx \in DOMAIN iou_thresholds :
                    FracEq(tracking_metrics[tidx], Recovery(chosen, iou_thresholds[tidx]))
        /\ (IsScenario /\ iou_thresholds[1] = 50) =>
              FracEq(tracking_metrics[1],
                     IF mode = "take_max_score" THEN Frac(50, 1) ELSE Frac(100, 1))

C1_Witness ==
    /\ Returned
    /\ IsScenario
    /\ mode = "take_max_stiou"
    /\ FracEq(tracking_metrics[1], Frac(100, 1))

-----------------------------------------------------------------------------
SomeMissing == \E g \in GtRows : Submitted(g) = {}

NothingStored ==
    /\ tracking_metrics = Unset
    /\ average_tracking_metrics = Unset
    /\ metrics = Unset

(* C2, as claimed.  Whenever some ground-truth video has no prediction,   *)
(* the call ends in a lookup failure and returns no result, also when the *)
(* prediction lists of all videos are empty.                               *)
C2_AlwaysLookupFailure ==
    SomeMissing => (~Returned /\ NothingStored)

(* C2, amended.  Whenever the prediction set is not empty and some        *)
(* ground-truth video has no prediction, the call can only end in the     *)
(* lookup failure: it never returns and nothing is stored.                 *)
C2_LookupFailureWhenNotEmpty ==
    (SomeMissing /\ prediction # <<>>) =>
        /\ pc \in {"constructed", "KeyError"}
        /\ NothingStored
        /\ pc = "constructed" => (ENABLED RaiseKeyError /\ ~ENABLED Evaluate)

C2_Witness ==
    /\ pc = "KeyError"
    /\ \E g \in GtRows : Submitted(g) = {}
    /\ \E g \in GtRows : Submitted(g) # {}

(* C3.  With an empty prediction set the call returns, without a lookup   *)
(* failure and without grouping the ground truth, one entry per threshold *)
(* and every entry 0.                                                      *)
C3_EmptyPredictionsAllZero ==
    prediction = <<>> =>
        /\ pc # "KeyError"
        /\ pc = "constructed" => ENABLED ReturnEmpty
        /\ ground_truth_gbvn = Unset
        /\ Returned =>
              /\ DOMAIN tracking_metrics = DOMAIN iou_thresholds
              /\ \A tidx \in DOMAIN iou_thresholds : tracking_metrics[tidx].num = 0

C3_Witness ==
    /\ prediction = <<>>
    /\ ground_truth # <<>>
    /\ pc = "returned"
    /\ Len(tracking_metrics) = Len(DefaultThresholds)

-----------------------------------------------------------------------------
InPercentRange(r) == FracLe(Zero, r) /\ FracLe(r, Frac(100, 1))

(* The number of matched frames of every prediction of a ground-truth     *)
(* video is at most the length of the video's ground truth.                *)
MatchesWithinLength ==
    \A g \in GtRows : \A i \in Submitted(g) :
        Cardinality(DOMAIN prediction[i].response_track.matches) <= LengthOf(g)

(* C4, as claimed.  Whatever the number of matched frames of a            *)
(* prediction, every returned robustness value lies in [0, 100].          *)
C4_AlwaysInRange ==
    Returned => \A tidx \in DOMAIN iou_thresholds : InPercentRange(tracking_metrics[tidx])

(* C4, amended.  When no prediction of a ground-truth video has more      *)
(* matched frames than the video's ground truth has frames, every         *)
(* returned robustness value lies in [0, 100].                             *)
C4_InRangeWhenMatchesWithinLength ==
    (Returned /\ MatchesWithinLength) =>
        \A tidx \in DOMAIN iou_thresholds : InPercentRange(tracking_metrics[tidx])

C4_Witness ==
    /\ Returned
    /\ MatchesWithinLength
    /\ Len(ground_truth) = MaxVideos
    /\ TotalLength > 0
    /\ \E tidx \in DOMAIN iou_thresholds :
          /\ ~FracEq(tracking_metrics[tidx], Zero)
          /\ ~FracEq(tracking_metrics[tidx], Frac(100, 1))

(* C5.  For two thresholds t1 <= t2 of the grid, sorted or not, the       *)
(* robustness returned at t1 is at least the robustness returned at t2.   *)
C5_MonotoneInThreshold ==
    Returned =>
        \A t1, t2 \in DOMAIN iou_thresholds :
            iou_thresholds[t1] <= iou_thresholds[t2] =>
                FracLe(tracking_metrics[t2], tracking_metrics[t1])

C5_Witness ==
    /\ Returned
    /\ iou_thresholds = UnsortedThresholds
    /\ \E t1, t2 \in DOMAIN iou_thresholds :
          /\ t1 > t2
          /\ iou_thresholds[t1] < iou_thresholds[t2]
          /\ ~FracLe(tracking_metrics[t1], tracking_metrics[t2])

-----------------------------------------------------------------------------
IsFalsePositive(row) == \A g \in GtRows : VideoOf(g) # row.video_id

WithoutFalsePositives(rows) == SelectSeq(rows, LAMBDA row : ~IsFalsePositive(row))

HasFalsePositive == \E i \in DOMAIN prediction : IsFalsePositive(prediction[i])

(* What the call returns when line 135 leaves the rows in this order. *)
ReturnedFor(rows) ==
    IF rows = <<>> THEN Zeros(iou_thresholds)
    ELSE AggregateSorted(ground_truth, rows, iou_thresholds, mode)

(* C6.  With a prediction for every ground-truth video, predictions for   *)
(* videos without ground truth raise no error and change no robustness    *)
(* value: the call returns what it returns for the same predictions       *)
(* without them, sorted in the same relative order.                        *)
C6_FalsePositivesIgnored ==
    (HasFalsePositive /\ NoneMissing) =>
        /\ pc # "KeyError"
        /\ Returned =>
             LET kept == WithoutFalsePositives(prediction)
                 keptSorted == WithoutFalsePositives(sorted_prediction)
             IN  /\ \E ascending \in argsort(Scores(kept)) :
                        SortedRows(kept, Reverse(ascending)) = keptSorted
                 /\ \A tidx \in DOMAIN iou_thresholds :
                        FracEq(tracking_metrics[tidx], ReturnedFor(keptSorted)[tidx])

C6_Witness ==
    /\ Returned
    /\ NoneMissing
    /\ GtRows # {}
    /\ IsFalsePositive(sorted_prediction[1])
    /\ \E tidx \in DOMAIN iou_thresholds : ~FracEq(tracking_metrics[tidx], Zero)

-----------------------------------------------------------------------------
OtherMode == IF mode = "take_max_score" THEN "take_max_stiou" ELSE "take_max_score"

(* Lines 133-177 do not read the mode: called in the other mode on the    *)
(* same inputs, the call selects (lines 185-197) and aggregates (lines    *)
(* 199-204) from the same sorted frame and the same arrays.                *)
OtherModeVector ==
    LET win == Winners(ground_truth, sorted_prediction, st_iou, iou_thresholds, OtherMode)
    IN  RobustnessVector(
            FinalCounts(ground_truth, sorted_prediction, track_acc_count, win,
                        iou_thresholds),
            FinalCounts(ground_truth, sorted_prediction, track_total_count, win,
                        iou_thresholds),
            iou_thresholds)

SameAsOtherMode ==
    \A tidx \in DOMAIN iou_thresholds :
        FracEq(tracking_metrics[tidx], OtherModeVector[tidx])

StrictlyMaxScoreOf(g, i) ==
    /\ i \in Submitted(g)
    /\ \A j \in Submitted(g) \ {i} : prediction[j].score < prediction[i].score

(* C7, as claimed.  When in every ground-truth video some prediction has  *)
(* both the highest score and the highest track IoU of the video, ties    *)
(* with other predictions included, the two modes return the same vector. *)
C7_ModesCoincideWithTies ==
    (Returned /\ prediction # <<>>
        /\ \A g \in GtRows : \E i \in Submitted(g) : MaxScoreOf(g, i) /\ MaxTrackIouOf(g, i))
    => SameAsOtherMode

(* C7, amended.  When in every ground-truth video one prediction has a    *)
(* score strictly above every other prediction of the video and also the  *)
(* highest track IoU of the video, possibly tied on track IoU, the two    *)
(* modes return the same vector.                                           *)
C7_ModesCoincideUniqueScore ==
    (Returned /\ prediction # <<>>
        /\ \A g \in GtRows : \E i \in Submitted(g) :
                StrictlyMaxScoreOf(g, i) /\ MaxTrackIouOf(g, i))
    => SameAsOtherMode

C7_Witness ==
    /\ Returned
    /\ prediction # <<>>
    /\ GtRows # {}
    /\ \A g \in GtRows : \E i \in Submitted(g) :
            /\ StrictlyMaxScoreOf(g, i)
            /\ MaxTrackIouOf(g, i)
            /\ \E j \in Submitted(g) \ {i} :
                  /\ MaxTrackIouOf(g, j)
                  /\ prediction[j].response_track.matches
                        # prediction[i].response_track.matches
    /\ \E tidx \in DOMAIN iou_thresholds : ~FracEq(tracking_metrics[tidx], Zero)

-----------------------------------------------------------------------------
(* The winner of ground-truth row g at threshold index tidx. *)
WinnerRow(g, tidx) == sorted_prediction[max_idx[g][tidx]]

(* Every frame of the ground truth is matched with IoU 1.0, and no other frame. *)
MatchesExactly(track, length) == track.matches = [f \in 1..length |-> 100]

PerfectWinners ==
    \A g \in GtRows : \A tidx \in DOMAIN iou_thresholds :
        MatchesExactly(WinnerRow(g, tidx).response_track, LengthOf(g))

(* C8, as claimed.  When every winner equals its ground truth frame for   *)
(* frame, the robustness is 100 at every threshold up to 1.0, for every   *)
(* ground truth whose lengths are integers >= 0.                           *)
C8_PerfectIsHundred ==
    (Returned /\ prediction # <<>> /\ PerfectWinners) =>
        \A tidx \in DOMAIN iou_thresholds :
            iou_thresholds[tidx] <= 100 => FracEq(tracking_metrics[tidx], Frac(100, 1))

(* C8, amended.  When every winner equals its ground truth frame for      *)
(* frame, the robustness at every threshold up to 1.0 is 100 if the       *)
(* ground-truth lengths sum to more than 0, and 0 if they sum to 0.       *)
C8_PerfectIsHundredUnlessNoFrames ==
    (Returned /\ prediction # <<>> /\ PerfectWinners) =>
        \A tidx \in DOMAIN iou_thresholds :
            iou_thresholds[tidx] <= 100 =>
                FracEq(tracking_metrics[tidx],
                       IF TotalLength > 0 THEN Frac(100, 1) ELSE Zero)

C8_Witness ==
    /\ Returned
    /\ prediction # <<>>
    /\ PerfectWinners
    /\ Len(ground_truth) = MaxVideos
    /\ \E g \in GtRows : LengthOf(g) > 0
    /\ \E g \in GtRows : LengthOf(g) = 0
    /\ \E tidx \in DOMAIN iou_thresholds : iou_thresholds[tidx] = 100

-----------------------------------------------------------------------------
AverageKey == Label(<<iou_thresholds[1], iou_thresholds[Len(iou_thresholds)]>>)

ThresholdKey(tidx) == Label(<<iou_thresholds[tidx]>>)

EntriesAt(key) == {i \in DOMAIN metrics : metrics[i].key = key}

Reported == {tidx \in DOMAIN iou_thresholds : iou_thresholds[tidx] \in ious_to_report}

IsMeanOf(value, vector) ==
    LET total == FracSum(vector)
    IN  value.num * total.den * Len(vector) = total.num * value.den

(* C9.  The mapping get_metrics returns holds exactly: one entry with the *)
(* mean of the robustness over the reporting grid, present iff averaging  *)
(* is not suppressed, and one entry per grid threshold that is in         *)
(* ious_to_report, holding the robustness at that threshold.  With the    *)
(* defaults that is two entries (one when averaging is suppressed) and no *)
(* entry for 0.75 or 0.95.                                                 *)
C9_MetricsMapping ==
    pc = "returned" =>
        /\ Cardinality(EntriesAt(AverageKey)) = IF ignore_iou_averaging THEN 0 ELSE 1
        /\ \A i \in EntriesAt(AverageKey) : IsMeanOf(metrics[i].value, tracking_metrics)
        /\ \A tidx \in DOMAIN iou_thresholds :
              /\ Cardinality(EntriesAt(ThresholdKey(tidx))) = IF tidx \in Reported THEN 1 ELSE 0
              /\ \A i \in EntriesAt(ThresholdKey(tidx)) :
                    metrics[i].value = tracking_metrics[tidx]
        /\ Len(metrics) = Cardinality(EntriesAt(AverageKey)) + Cardinality(Reported)
        /\ (iou_thresholds = DefaultThresholds /\ ious_to_report = DefaultReport) =>
              /\ Len(metrics) = IF ignore_iou_averaging THEN 1 ELSE 2
              /\ EntriesAt(Label(<<75>>)) = {}
              /\ EntriesAt(Label(<<95>>)) = {}

C9_Witness ==
    /\ pc = "returned"
    /\ ignore_iou_averaging
    /\ ious_to_report = {50, 95}
    /\ Len(metrics) = 2
    /\ ~FracEq(tracking_metrics[1], tracking_metrics[3])

-----------------------------------------------------------------------------
TiedAtMaximum(g) == {i \in Submitted(g) : MaxScoreOf(g, i)}

Earliest(S) == CHOOSE i \in S : \A j \in S : i <= j

DescendingByScore ==
    \A a, b \in DOMAIN sort_idx :
        a < b => prediction[sort_idx[a]].score >= prediction[sort_idx[b]].score

(* C10, as claimed.  The predictions are sorted stably by descending      *)
(* score, equal scores keeping their input order, and under               *)
(* take_max_score the winner of a video, at every threshold, is of its    *)
(* maximum-score predictions the one that is earliest in the input.       *)
C10_StableSortEarliestWins ==
    (Returned /\ prediction # <<>>) =>
        /\ DescendingByScore
        /\ \A a, b \in DOMAIN sort_idx :
              (a < b /\ prediction[sort_idx[a]].score = prediction[sort_idx[b]].score)
                  => sort_idx[a] < sort_idx[b]
        /\ mode = "take_max_score" =>
              \A g \in GtRows : \A tidx \in DOMAIN iou_thresholds :
                  sort_idx[max_idx[g][tidx]] = Earliest(TiedAtMaximum(g))

(* C10, amended.  The predictions are sorted by descending score, equal   *)
(* scores in an order that need not be the input order, and under         *)
(* take_max_score the winner of a video, at every threshold, is of its    *)
(* maximum-score predictions the one that is first in the sorted order.   *)
C10_DescendingSortFirstSortedWins ==
    (Returned /\ prediction # <<>>) =>
        /\ {sort_idx[a] : a \in DOMAIN sort_idx} = DOMAIN prediction
        /\ Len(sort_idx) = Len(prediction)
        /\ \A a \in DOMAIN sort_idx : sorted_prediction[a] = prediction[sort_idx[a]]
        /\ DescendingByScore
        /\ mode = "take_max_score" =>
              \A g \in GtRows : \A tidx \in DOMAIN iou_thresholds :
                  max_idx[g][tidx] =
                      Earliest({a \in DOMAIN sort_idx : sort_idx[a] \in TiedAtMaximum(g)})

C10_Witness ==
    /\ Returned
    /\ prediction # <<>>
    /\ mode = "take_max_score"
    /\ \E g \in GtRows :
          /\ Cardinality(TiedAtMaximum(g)) > 1
          /\ sort_idx[max_idx[g][1]] # Earliest(TiedAtMaximum(g))
          /\ prediction[sort_idx[max_idx[g][1]]].response_track
                # prediction[Earliest(TiedAtMaximum(g))].response_track

=============================================================================
